---- MODULE Spec2Model ----
(***************************************************************************)
(* Model of the manga chapter watcher: unified_manga_scraper.py (fetch,    *)
(* extraction, reconciliation, persistence).                               *)
(*                                                                         *)
(* Text is a sequence of one-character strings.  A chapter number (a       *)
(* Python float) is an integer counting thousandths: 7.2 is 7200.          *)
(***************************************************************************)
EXTENDS Integers, Sequences, FiniteSets, TLC

(***************************************************************************)
(* Characters and text helpers (str.lower, str.strip, the regex classes).  *)
(***************************************************************************)
Digits == {"0", "1", "2", "3", "4", "5", "6", "7", "8", "9"}

DigitVal(c) ==
  CASE c = "0" -> 0 [] c = "1" -> 1 [] c = "2" -> 2 [] c = "3" -> 3
    [] c = "4" -> 4 [] c = "5" -> 5 [] c = "6" -> 6 [] c = "7" -> 7
    [] c = "8" -> 8 [] c = "9" -> 9

\* \s of the regexes, restricted to the blank
IsSpace(c) == c = " "

\* \w of the regexes: letters, digits and the underscore
IsWord(c) == c \in Digits \/ c \in {"a", "c", "e", "h", "i", "í", "l", "o", "p",
                                    "r", "t", "u", "v", "x", "C", "H", "_"}

LowerChar(c) == CASE c = "C" -> "c" [] c = "H" -> "h" [] OTHER -> c

Lower(t) == [i \in 1..Len(t) |-> LowerChar(t[i])]

RECURSIVE LStrip(_)
LStrip(t) == IF t # <<>> /\ IsSpace(Head(t)) THEN LStrip(Tail(t)) ELSE t

RECURSIVE RStrip(_)
RStrip(t) ==
  IF t # <<>> /\ IsSpace(t[Len(t)]) THEN RStrip(SubSeq(t, 1, Len(t) - 1)) ELSE t

Strip(t) == RStrip(LStrip(t))

\* does the literal w occur in t at position p
StartsWith(t, p, w) ==
  /\ p + Len(w) - 1 <= Len(t)
  /\ \A i \in 1..Len(w) : t[p + i - 1] = w[i]

\* first position at or after p that holds no blank (\s* is greedy)
RECURSIVE SkipSpaces(_, _)
SkipSpaces(t, p) ==
  IF p <= Len(t) /\ IsSpace(t[p]) THEN SkipSpaces(t, p + 1) ELSE p

\* first position at or after p that holds no digit ([0-9]+ is greedy)
RECURSIVE DigitsEnd(_, _)
DigitsEnd(t, p) ==
  IF p <= Len(t) /\ t[p] \in Digits THEN DigitsEnd(t, p + 1) ELSE p

\* end (exclusive) of [0-9]+(?:[seps][0-9]+)? matched at p; p when no match
NumEnd(t, p, seps) ==
  LET d == DigitsEnd(t, p) IN
  IF d = p THEN p
  ELSE IF d <= Len(t) /\ t[d] \in seps /\ DigitsEnd(t, d + 1) > d + 1
       THEN DigitsEnd(t, d + 1)
       ELSE d

\* \b at position e, the character before e being a word character
BoundaryAfter(t, e) == e > Len(t) \/ ~IsWord(t[e])

\* \b at position p, the character at p being a word character
BoundaryBefore(t, p) == p = 1 \/ ~IsWord(t[p - 1])

\* as NumEnd, followed by \b: the regex backtracks to the integer part
NumEndB(t, p, seps) ==
  LET d == DigitsEnd(t, p)
      full == NumEnd(t, p, seps)
  IN  IF d = p THEN p
      ELSE IF BoundaryAfter(t, full) THEN full
      ELSE IF full > d /\ BoundaryAfter(t, d) THEN d
      ELSE p

(***************************************************************************)
(* Python floats, in thousandths.                                          *)
(***************************************************************************)
Scale == 1000

RECURSIVE DigitsToInt(_)
DigitsToInt(ds) ==
  IF ds = <<>> THEN 0
  ELSE 10 * DigitsToInt(SubSeq(ds, 1, Len(ds) - 1)) + DigitVal(ds[Len(ds)])

\* the fractional digits fs as thousandths
FracToInt(fs) ==
  LET d(i) == IF i <= Len(fs) THEN DigitVal(fs[i]) ELSE 0
  IN  100 * d(1) + 10 * d(2) + d(3)

\* val.replace(",", ".")
ReplaceComma(val) == [i \in 1..Len(val) |-> IF val[i] = "," THEN "." ELSE val[i]]

\* val.replace(",", ".").replace("-", ".")
ReplaceSeps(val) == [i \in 1..Len(val) |-> IF val[i] \in {",", "-"} THEN "." ELSE val[i]]

\* float(val) of digits with at most one "."
ToFloat(val) ==
  LET d == DigitsEnd(val, 1) IN
  DigitsToInt(SubSeq(val, 1, d - 1)) * Scale
    + (IF d <= Len(val) THEN FracToInt(SubSeq(val, d + 1, Len(val))) ELSE 0)

(***************************************************************************)
(* Optional[float] and the YAML scalars of last_chapter.                   *)
(***************************************************************************)
None == [k |-> "none"]
Num(v) == [k |-> "num", v |-> v]
\* a YAML string that float() rejects
NotNumber == [k |-> "str"]

(***************************************************************************)
(* CAP_PATTERNS and normalize_chapter.                                     *)
(***************************************************************************)
W_capitulo == <<"c", "a", "p", "i", "t", "u", "l", "o">>
W_capitulo_acc == <<"c", "a", "p", "í", "t", "u", "l", "o">>
W_chapter == <<"c", "h", "a", "p", "t", "e", "r">>
W_ch == <<"c", "h">>

CapSeps == {".", ",", "-"}
BareSeps == {".", ","}

NoMatch == [from |-> 0, to |-> 0]

\* group 1 of r"cap[ií]tulo\s*([0-9]+(?:[.,-][0-9]+)?)" matched at p
MatchCapitulo(t, p) ==
  IF StartsWith(t, p, W_capitulo) \/ StartsWith(t, p, W_capitulo_acc)
  THEN LET s == SkipSpaces(t, p + Len(W_capitulo))
           e == NumEnd(t, s, CapSeps)
       IN  IF e > s THEN [from |-> s, to |-> e - 1] ELSE NoMatch
  ELSE NoMatch

\* group 1 of r"chapter\s*([0-9]+(?:[.,-][0-9]+)?)" matched at p
MatchChapter(t, p) ==
  IF StartsWith(t, p, W_chapter)
  THEN LET s == SkipSpaces(t, p + Len(W_chapter))
           e == NumEnd(t, s, CapSeps)
       IN  IF e > s THEN [from |-> s, to |-> e - 1] ELSE NoMatch
  ELSE NoMatch

\* group 1 of r"\bch\s*([0-9]+(?:[.,-][0-9]+)?)\b" matched at p
MatchCh(t, p) ==
  IF BoundaryBefore(t, p) /\ StartsWith(t, p, W_ch)
  THEN LET s == SkipSpaces(t, p + Len(W_ch))
           e == NumEndB(t, s, CapSeps)
       IN  IF e > s THEN [from |-> s, to |-> e - 1] ELSE NoMatch
  ELSE NoMatch

\* group 1 of r"([0-9]+(?:[.,][0-9]+)?)" matched at p
MatchBare(t, p) ==
  LET e == NumEnd(t, p, BareSeps)
  IN  IF e > p THEN [from |-> p, to |-> e - 1] ELSE NoMatch

\* re.search: the match at the leftmost position that has one
SearchCapitulo(t) ==
  LET ps == {p \in 1..Len(t) : MatchCapitulo(t, p) # NoMatch}
  IN  IF ps = {} THEN NoMatch
      ELSE MatchCapitulo(t, CHOOSE p \in ps : \A q \in ps : p <= q)

SearchChapter(t) ==
  LET ps == {p \in 1..Len(t) : MatchChapter(t, p) # NoMatch}
  IN  IF ps = {} THEN NoMatch
      ELSE MatchChapter(t, CHOOSE p \in ps : \A q \in ps : p <= q)

SearchCh(t) ==
  LET ps == {p \in 1..Len(t) : MatchCh(t, p) # NoMatch}
  IN  IF ps = {} THEN NoMatch
      ELSE MatchCh(t, CHOOSE p \in ps : \A q \in ps : p <= q)

SearchBare(t) ==
  LET ps == {p \in 1..Len(t) : MatchBare(t, p) # NoMatch}
  IN  IF ps = {} THEN NoMatch
      ELSE MatchBare(t, CHOOSE p \in ps : \A q \in ps : p <= q)

Group(t, m) == SubSeq(t, m.from, m.to)

\* mutant of normalize_chapter: the first bare number is looked for first
normalize_chapter_BareFirst(text) ==
  IF text = <<>> THEN None
  ELSE LET t == Strip(Lower(text))
           m1 == SearchCapitulo(t)
           m2 == SearchChapter(t)
           m3 == SearchCh(t)
           mb == SearchBare(t)
       IN  IF mb # NoMatch THEN Num(ToFloat(ReplaceComma(Group(t, mb))))
           ELSE IF m1 # NoMatch THEN Num(ToFloat(ReplaceSeps(Group(t, m1))))
           ELSE IF m2 # NoMatch THEN Num(ToFloat(ReplaceSeps(Group(t, m2))))
           ELSE IF m3 # NoMatch THEN Num(ToFloat(ReplaceSeps(Group(t, m3))))
           ELSE None

normalize_chapter(text) ==
  IF text = <<>> THEN None
  ELSE LET t == Strip(Lower(text))
           m1 == SearchCapitulo(t)
           m2 == SearchChapter(t)
           m3 == SearchCh(t)
           mb == SearchBare(t)
       IN  IF m1 # NoMatch THEN Num(ToFloat(ReplaceSeps(Group(t, m1))))
           ELSE IF m2 # NoMatch THEN Num(ToFloat(ReplaceSeps(Group(t, m2))))
           ELSE IF m3 # NoMatch THEN Num(ToFloat(ReplaceSeps(Group(t, m3))))
           ELSE IF mb # NoMatch THEN Num(ToFloat(ReplaceComma(Group(t, mb))))
           ELSE None

(***************************************************************************)
(* Pages.  An HTML document is the sequence of its elements that a         *)
(* selector of the parsers can reach: kind "chapter_link" is matched by    *)
(* "li.wp-manga-chapter a", "h4_link" by "#chapters li.list-group-item h4  *)
(* a.btn-collapse", "album_title" by ".structItem--resourceAlbum           *)
(* .structItem-title", and "link" is any other <a>.                        *)
(***************************************************************************)
El(kind, text) == [kind |-> kind, text |-> text]

AnchorKinds == {"chapter_link", "h4_link", "link"}

\* " ".join(s.split()): blanks stripped, runs of blanks collapsed
RECURSIVE CollapseSpaces(_)
CollapseSpaces(t) ==
  LET u == LStrip(t) IN
  IF u = <<>> THEN <<>>
  ELSE LET e == CHOOSE i \in 1..(Len(u) + 1) :
                  /\ i > Len(u) \/ IsSpace(u[i])
                  /\ \A j \in 1..(i - 1) : ~IsSpace(u[j])
           rest == CollapseSpaces(SubSeq(u, e, Len(u)))
       IN  SubSeq(u, 1, e - 1) \o (IF rest = <<>> THEN <<>> ELSE <<" ">> \o rest)

\* w in t (substring)
Contains(t, w) == \E p \in 1..Len(t) : StartsWith(t, p, w)

\* the texts, in document order, of the elements of page of the given kinds
TextsOf(page, kinds) ==
  LET es == SelectSeq(page, LAMBDA e : e.kind \in kinds)
  IN  [i \in 1..Len(es) |-> es[i].text]

\* the candidates normalize_chapter finds in a list of texts (caps)
Caps(texts) ==
  {normalize_chapter(texts[i]) : i \in 1..Len(texts)} \ {None}

\* max(caps) if caps else None
MaxOrNone(caps) ==
  IF caps = {} THEN None
  ELSE CHOOSE c \in caps : \A d \in caps : d.v <= c.v

parse_madara_latest(page) ==
  LET links == TextsOf(page, {"chapter_link"})
  IN  MaxOrNone(Caps([i \in 1..Len(links) |-> CollapseSpaces(links[i])]))

\* mutant of parse_zonatmo_latest: the anchors are scanned whatever the headers gave
parse_zonatmo_latest_Mixed(page) ==
  LET h4 == TextsOf(page, {"h4_link"})
      caps == Caps([i \in 1..Len(h4) |-> CollapseSpaces(h4[i])])
      as == TextsOf(page, AnchorKinds)
      ts == SelectSeq([i \in 1..Len(as) |-> Strip(as[i])],
                      LAMBDA t : Contains(t, <<"C", "a", "p">>)
                                   \/ Contains(t, <<"c", "a", "p">>))
  IN  MaxOrNone(caps \cup Caps(ts))

parse_zonatmo_latest(page) ==
  LET h4 == TextsOf(page, {"h4_link"})
      caps == Caps([i \in 1..Len(h4) |-> CollapseSpaces(h4[i])])
      as == TextsOf(page, AnchorKinds)
      ts == SelectSeq([i \in 1..Len(as) |-> Strip(as[i])],
                      LAMBDA t : Contains(t, <<"C", "a", "p">>)
                                   \/ Contains(t, <<"c", "a", "p">>))
  IN  IF caps # {} THEN MaxOrNone(caps) ELSE MaxOrNone(Caps(ts))

parse_animebbg_latest(page) ==
  LET titles == TextsOf(page, {"album_title"})
      caps == Caps([i \in 1..Len(titles) |-> CollapseSpaces(titles[i])])
      as == TextsOf(page, AnchorKinds)
  IN  IF caps # {} THEN MaxOrNone(caps)
      ELSE MaxOrNone(Caps([i \in 1..Len(as) |-> Strip(as[i])]))

(***************************************************************************)
(* Hosts and hints are sequences of labels: "zonatmo.com" is               *)
(* <<"zonatmo", "com">>.                                                   *)
(***************************************************************************)
FORCE_CLOUDSCRAPER == {<<"m440", "in">>, <<"mangasnosekai", "com">>,
                       <<"zonatmo", "com">>, <<"animebbg", "net">>}

\* dom in host
HostHas(host, dom) == \E p \in 1..Len(host) : StartsWith(host, p, dom)

\* word in hint
HintHas(hint, word) == \E p \in 1..Len(hint) : hint[p] = word

\* mutant of ParserFor: the hint is looked at first, the host only after it
ParserFor_HintFirst(host, hint) ==
  IF HintHas(hint, "bokugents") \/ HintHas(hint, "mangasnosekai") \/ HintHas(hint, "m440")
    THEN "madara"
  ELSE IF HintHas(hint, "zonatmo") THEN "zonatmo"
  ELSE IF HintHas(hint, "animebbg") THEN "animebbg"
  ELSE IF HostHas(host, <<"zonatmo", "com">>) THEN "zonatmo"
  ELSE IF HostHas(host, <<"animebbg", "net">>) THEN "animebbg"
  ELSE "madara"

\* the parser get_latest_chapter picks for a host and a hint
ParserFor(host, hint) ==
  IF HostHas(host, <<"bokugents", "com">>) \/ HintHas(hint, "bokugents") THEN "madara"
  ELSE IF HostHas(host, <<"mangasnosekai", "com">>) \/ HintHas(hint, "mangasnosekai")
    THEN "madara"
  ELSE IF HostHas(host, <<"m440", "in">>) \/ HintHas(hint, "m440") THEN "madara"
  ELSE IF HostHas(host, <<"zonatmo", "com">>) \/ HintHas(hint, "zonatmo") THEN "zonatmo"
  ELSE IF HostHas(host, <<"animebbg", "net">>) \/ HintHas(hint, "animebbg") THEN "animebbg"
  ELSE "madara"

\* the parser named p applied to page
ParseWith(p, page) ==
  IF p = "zonatmo" THEN parse_zonatmo_latest(page)
  ELSE IF p = "animebbg" THEN parse_animebbg_latest(page)
  ELSE parse_madara_latest(page)

(***************************************************************************)
(* Bounds and inputs of the model.                                         *)
(***************************************************************************)
\* the longest library Init draws
MaxSources == 2

T_cap5 == <<"C", "a", "p", "í", "t", "u", "l", "o", " ", "5">>
T_cap7_2 == <<"C", "a", "p", "í", "t", "u", "l", "o", " ", " ", "7", "-", "2">>
T_ch0 == <<"c", "h", "a", "p", "t", "e", "r", " ", "0">>
T_year == <<"2", "0", "2", "4">>
T_cap_year == <<"C", "a", "p", " ", "2", "0", "2", "4">>
T_x == <<"x">>

\* the response bodies a server may send; the first is the empty body
EmptyBody == <<>>
PageList == <<El("chapter_link", T_cap5), El("chapter_link", T_cap7_2),
              El("h4_link", T_cap5), El("album_title", T_cap5)>>
PageYear == <<El("chapter_link", T_year), El("link", T_cap_year)>>
PageZero == <<El("chapter_link", T_ch0), El("h4_link", T_ch0), El("album_title", T_ch0)>>
PageNoNumber == <<El("link", T_x)>>
Pages == {EmptyBody, PageList, PageYear, PageZero, PageNoNumber}

\* what each parser finds in each body, computed once: <<parser, body, result>>
Parsed ==
  {<<p, b, ParseWith(p, b)>> : p \in {"madara", "zonatmo", "animebbg"}, b \in Pages}

\* the parse step of get_latest_chapter
ParseLatest(host, hint, page) ==
  (CHOOSE e \in Parsed : e[1] = ParserFor(host, hint) /\ e[2] = page)[3]

\* what one sess.get can do: a response, or an exception
Responses ==
  {[status |-> st, text |-> b] : st \in {200, 201}, b \in Pages}
    \cup {[status |-> st, text |-> EmptyBody] : st \in {403, 503, 404}}
RequestException == [raises |-> "RequestException"]
OtherException == [raises |-> "Exception"]
GetOutcomes == Responses \cup {RequestException, OtherException}

\* what one requests.post can do: an ok response, another response, an exception
PostOutcomes == {"ok", "bad", "raise"}

\* the url of a series with no url
NoUrl == <<>>

\* the static parts a series of the library may have
Configs ==
  << [url |-> <<"bokugents", "com">>, site |-> <<>>, force |-> FALSE],
     [url |-> <<"zonatmo", "com">>, site |-> <<>>, force |-> FALSE],
     [url |-> NoUrl, site |-> <<>>, force |-> FALSE],
     [url |-> <<"example", "org">>, site |-> <<"AnimeBBG">>, force |-> TRUE] >>

\* the static part of the i-th series of the library that starts at Configs[k + 1]
SeriesConfig(k, i) == Configs[((i - 1 + k) % Len(Configs)) + 1]

\* the last_chapter values a library file may hold at first
InitLast == {None, NotNumber, Num(5000)}

Series(c, last) ==
  [url |-> c.url, site |-> c.site, force |-> c.force, last_chapter |-> last]

Libraries ==
  UNION {{[i \in 1..n |-> Series(SeriesConfig(k, i), lasts[i])] :
            lasts \in [1..n -> InitLast]} : n \in 0..MaxSources, k \in {0, 2}}

(***************************************************************************)
(* fix_yaml.py: the last_chapter values the cleaner keeps.                 *)
(***************************************************************************)
\* the YAML scalars of last_chapter besides None, a number and a string that is
\* no number: the empty string, a string that float() reads as v, and .nan
EmptyString == [k |-> "empty"]
NumStr(v) == [k |-> "numstr", v |-> v]
NaN == [k |-> "nan"]

\* not a year (1900-2100), not a huge id (> 3000), positive
plausible_chapter(x) ==
  /\ x.k \in {"num", "numstr"}
  /\ ~(1900 * Scale <= x.v /\ x.v <= 2100 * Scale)
  /\ x.v <= 3000 * Scale
  /\ x.v > 0

\* round(v, 1): the nearest tenth; of a value halfway between two tenths
\* either, as the float that holds it lies below or above the middle
Round1(v) ==
  LET lo == v - (v % 100) IN
  IF v % 100 < 50 THEN {lo}
  ELSE IF v % 100 > 50 THEN {lo + 100}
  ELSE {lo, lo + 100}

\* v2: round(v, 1) of a value with decimals, int(round(v)) of a whole one
Normalized(v) == IF v % Scale # 0 THEN Round1(v) ELSE {v}

\* the body of main()'s loop for a series whose last_chapter is lc: what
\* last_chapter is after it, and whether it set changed
FixEntry(lc) ==
  IF lc = None \/ lc = EmptyString THEN {[new |-> lc, changed |-> FALSE]}
  ELSE IF plausible_chapter(lc)
    THEN {[new |-> IF lc.k = "num" /\ v2 = lc.v THEN lc ELSE Num(v2),
           changed |-> ~(lc.k = "num" /\ v2 = lc.v)] : v2 \in Normalized(lc.v)}
  ELSE {[new |-> None, changed |-> TRUE]}

\* the library file fix_yaml reads: missing, with no list of series, or with one
NoFile == [exists |-> FALSE]
NoList == [exists |-> TRUE, is_list |-> FALSE]
Library(lcs) == [exists |-> TRUE, is_list |-> TRUE, series |-> lcs]

\* the ways main()'s loop can go over all the series
FixRuns(lcs) == {r \in [1..Len(lcs) -> UNION {FixEntry(lcs[i]) : i \in 1..Len(lcs)}] :
                   \A i \in 1..Len(lcs) : r[i] \in FixEntry(lcs[i])}

\* fix_yaml's main(): its return code, the library file and the backup it leaves
fix_yaml(lib, dry) ==
  IF ~lib.exists THEN {[rc |-> 2, lib |-> lib, backup |-> NoFile]}
  ELSE IF ~lib.is_list THEN {[rc |-> 3, lib |-> lib, backup |-> NoFile]}
  ELSE {[rc |-> 0,
         lib |-> IF (\E i \in 1..Len(r) : r[i].changed) /\ ~dry
                   THEN Library([i \in 1..Len(r) |-> r[i].new]) ELSE lib,
         backup |-> IF (\E i \in 1..Len(r) : r[i].changed) /\ ~dry
                      THEN lib ELSE NoFile] : r \in FixRuns(lib.series)}

(***************************************************************************)
(* State.                                                                  *)
(***************************************************************************)
VARIABLES
  file,           \* the series of manga_library.yml (LIB_FILE)
  cloudscraper,   \* is the cloudscraper module installed
  webhook,        \* is DISCORD_WEBHOOK_URL set
  pc,             \* where main() is: "idle", "loop", "fetch", "parse"
  series,         \* main's series, loaded from the file
  idx,            \* main's idx
  something_new,  \* main's something_new
  attempt,        \* fetch_html's attempt
  use_cloud,      \* fetch_html's use_cloud
  sess,           \* fetch_html's session: "requests" or "cloudscraper"
  nreq,           \* the requests fetch_html has issued in this call
  html,           \* what fetch_html returned: [status, text]
  out,            \* the lines main() printed in this run, one per series
  posts,          \* the messages notify_discord_new posted in this run
  delivery,       \* what the requests.post of each of them did
  summary,        \* how the last run ended
  writes,         \* the calls of save_library in this run
  loaded,         \* the series as load_library returned them (history)
  seen,           \* per series, the value its latest reconciliation extracted
  repeated,       \* did the latest reconciliation extract what the one before did
  got,            \* what the sess.get calls of fetch_html's latest iteration did,
                  \* for as long as main() is at that call (history)
  arg,            \* a function of the repository called by itself: its name and input
  res             \* and what it returned

vars == <<file, cloudscraper, webhook, pc, series, idx, something_new, attempt,
          use_cloud, sess, nreq, html, out, posts, delivery, summary, writes,
          loaded, seen, repeated, got, arg, res>>

fetchVars == <<attempt, use_cloud, sess, nreq>>
envVars == <<cloudscraper, webhook>>
unitVars == <<arg, res>>
mainVars == <<file, cloudscraper, webhook, pc, series, idx, something_new, attempt,
              use_cloud, sess, nreq, html, out, posts, delivery, summary, writes,
              loaded, seen, repeated, got>>

\* no function is called by itself
NoArg == [f |-> "none"]
NoRes == [done |-> FALSE, v |-> <<>>]

max_tries == 3

NoHtml == [status |-> 0, text |-> EmptyBody]

\* main() has not started
MainIdle ==
  /\ pc = "idle"
  /\ series = <<>>
  /\ idx = 1
  /\ something_new = FALSE
  /\ attempt = 1
  /\ use_cloud = FALSE
  /\ sess = "requests"
  /\ nreq = 0
  /\ html = NoHtml
  /\ out = <<>>
  /\ posts = <<>>
  /\ delivery = <<>>
  /\ summary = "none"
  /\ writes = 0
  /\ loaded = <<>>
  /\ seen = [i \in 1..Len(file.series) |-> None]
  /\ repeated = FALSE
  /\ got = <<>>

Init ==
  /\ file \in {[exists |-> TRUE, series |-> lib] : lib \in Libraries}
               \cup {[exists |-> FALSE, series |-> <<>>]}
  /\ cloudscraper \in BOOLEAN
  /\ webhook \in BOOLEAN
  /\ MainIdle
  /\ arg = NoArg
  /\ res = NoRes

(***************************************************************************)
(* YAML I/O.                                                               *)
(***************************************************************************)
\* the series load_library returns: none when LIB_FILE does not exist
load_library(f) == IF f.exists THEN f.series ELSE <<>>

\* the file save_library leaves
save_library(data) == [exists |-> TRUE, series |-> data]

(***************************************************************************)
(* main(): one run over the library.                                       *)
(***************************************************************************)
\* a printed line about series i
Line(i, kind, old, new) == [src |-> i, kind |-> kind, old |-> old, new |-> new]

\* main() is done with series idx: it prints a line and goes to the next one
Finish(kind) ==
  /\ out' = Append(out, Line(idx, kind, None, None))
  /\ idx' = idx + 1
  /\ pc' = "loop"

\* lib = load_library(); the early return on an empty library
StartRun ==
  /\ pc = "idle"
  /\ series' = load_library(file)
  /\ loaded' = series'
  /\ IF series' = <<>>
       THEN pc' = "idle" /\ summary' = "no_series"
       ELSE pc' = "loop" /\ summary' = "none"
  /\ idx' = 1
  /\ something_new' = FALSE
  /\ out' = <<>>
  /\ posts' = <<>>
  /\ delivery' = <<>>
  /\ writes' = 0
  /\ html' = NoHtml
  /\ attempt' = 1
  /\ use_cloud' = FALSE
  /\ sess' = "requests"
  /\ nreq' = 0
  /\ repeated' = FALSE
  /\ got' = <<>>
  /\ UNCHANGED <<file, envVars, unitVars, seen>>

\* fetch_html's use_cloud at entry, as get_latest_chapter calls it
UseCloudAtEntry(s) == s.force \/ s.url \in FORCE_CLOUDSCRAPER

\* the head of the loop body: a series with no url is skipped, any other
\* enters get_latest_chapter and fetch_html
BeginSource ==
  /\ pc = "loop"
  /\ idx <= Len(series)
  /\ LET s == series[idx] IN
       IF s.url = NoUrl
         THEN /\ Finish("no_url")
              /\ UNCHANGED fetchVars
         ELSE /\ pc' = "fetch"
              /\ attempt' = 1
              /\ use_cloud' = UseCloudAtEntry(s)
              /\ sess' = IF use_cloud' /\ cloudscraper THEN "cloudscraper" ELSE "requests"
              /\ nreq' = 0
              /\ UNCHANGED <<idx, out>>
  /\ got' = <<>>
  /\ UNCHANGED <<file, envVars, unitVars, series, something_new, html, posts, delivery, summary, writes,
                 loaded, seen, repeated>>

\* mutant of Accepted: a 404 page is taken for content as well
Accepted_NotFoundToo(r) == r.status \in {200, 201, 404}

\* r.status_code in (200, 201)
Accepted(r) == r.status \in {200, 201}

\* mutant of Escalates: the fallback is tried on cloudscraper sessions as well
Escalates_EvenOnCloud(r) == r.status \in {403, 503} /\ cloudscraper

\* r.status_code in (403, 503) and not use_cloud and cloudscraper
Escalates(r) == r.status \in {403, 503} /\ ~use_cloud /\ cloudscraper

\* fetch_html returns (status_code, html)
FetchReturn(r) ==
  /\ pc' = "parse"
  /\ html' = r
  /\ UNCHANGED <<idx, out, attempt>>

\* mutant of FetchRetry: one iteration too many before giving up
FetchRetry_OffByOne ==
  /\ IF attempt <= max_tries
       THEN /\ attempt' = attempt + 1
            /\ UNCHANGED <<pc, idx, out>>
       ELSE /\ Finish("fetch_error")
            /\ UNCHANGED attempt
  /\ UNCHANGED html

\* the backoff at the end of an iteration; after max_tries iterations
\* fetch_html raises RuntimeError, which main() reports
FetchRetry ==
  /\ IF attempt < max_tries
       THEN /\ attempt' = attempt + 1
            /\ UNCHANGED <<pc, idx, out>>
       ELSE /\ Finish("fetch_error")
            /\ UNCHANGED attempt
  /\ UNCHANGED html

\* mutant of FetchPropagate: nothing catches the exception and main() dies
FetchPropagate_Uncaught ==
  /\ pc' = "idle"
  /\ UNCHANGED <<idx, out, html, attempt>>

\* an exception fetch_html does not catch reaches main()'s except Exception
FetchPropagate ==
  /\ Finish("unknown_error")
  /\ UNCHANGED <<html, attempt>>

\* what follows the outcome g of a sess.get
AfterGet(g) ==
  IF g = OtherException THEN FetchPropagate
  ELSE IF g = RequestException THEN FetchRetry
  ELSE IF Accepted(g) THEN FetchReturn(g)
  ELSE FetchRetry

\* mutant of FetchAttempt: the fallback does not set use_cloud
FetchAttempt_NoLatch ==
  /\ pc = "fetch"
  /\ \E g \in GetOutcomes :
       IF g \in Responses /\ ~Accepted(g) /\ Escalates(g)
         THEN /\ sess' = "cloudscraper"
              /\ nreq' = nreq + 2
              /\ \E rr \in GetOutcomes : AfterGet(rr) /\ got' = <<g, rr>>
              /\ UNCHANGED use_cloud
         ELSE /\ nreq' = nreq + 1
              /\ AfterGet(g)
              /\ got' = <<g>>
              /\ UNCHANGED <<use_cloud, sess>>
  /\ UNCHANGED <<file, envVars, unitVars, series, something_new, posts, delivery, summary, writes,
                 loaded, seen, repeated>>

\* one iteration of fetch_html's loop
FetchAttempt ==
  /\ pc = "fetch"
  /\ \E g \in GetOutcomes :
       IF g \in Responses /\ ~Accepted(g) /\ Escalates(g)
         THEN \* the fallback: a cloudscraper session and a second get
              /\ use_cloud' = TRUE
              /\ sess' = "cloudscraper"
              /\ nreq' = nreq + 2
              /\ \E rr \in GetOutcomes : AfterGet(rr) /\ got' = <<g, rr>>
         ELSE /\ nreq' = nreq + 1
              /\ AfterGet(g)
              /\ got' = <<g>>
              /\ UNCHANGED <<use_cloud, sess>>
  /\ UNCHANGED <<file, envVars, unitVars, series, something_new, posts, delivery, summary, writes,
                 loaded, seen, repeated>>

\* (site_hint or "").lower().strip()
LowerHint(site) == [i \in 1..Len(site) |-> IF site[i] = "AnimeBBG" THEN "animebbg" ELSE site[i]]

\* last coerced to a float or None
CoerceLast(last) == IF last.k = "num" THEN last ELSE None

\* mutants of IsUpdate: "differs" for "greater", no bootstrap case, ">=" for ">"
IsUpdate_NotEqual(last_f, latest) == last_f = None \/ latest.v # last_f.v
IsUpdate_NoBootstrap(last_f, latest) ==
  latest.v > (IF last_f = None THEN 0 ELSE last_f.v)
IsUpdate_GreaterEqual(last_f, latest) == last_f = None \/ latest.v >= last_f.v

\* (last_f is None) or (latest > last_f)
IsUpdate(last_f, latest) == last_f = None \/ latest.v > last_f.v

\* the old value as the update line shows it
Placeholder == [k |-> "int", v |-> 0]
ShownOld(last_f) == IF last_f = None THEN Placeholder ELSE last_f

\* mutant of ReconcileWith: a failed extraction clears last_chapter
ReconcileWith_ClearOnFailure(latest, last_f) ==
  IF latest = None
    THEN /\ Finish("no_chapter")
         /\ series' = [series EXCEPT ![idx].last_chapter = None]
         /\ UNCHANGED <<something_new, posts, delivery, seen, repeated>>
    ELSE /\ seen' = [seen EXCEPT ![idx] = latest]
         /\ repeated' = (seen[idx] = latest)
         /\ IF IsUpdate(last_f, latest)
              THEN /\ series' = [series EXCEPT ![idx].last_chapter = latest]
                   /\ out' = Append(out, Line(idx, "updated", ShownOld(last_f), latest))
                   /\ posts' = IF webhook
                                 THEN Append(posts, Line(idx, "updated",
                                                         ShownOld(last_f), latest))
                                 ELSE posts
                   /\ \E o \in PostOutcomes :
                        delivery' = IF webhook THEN Append(delivery, o) ELSE delivery
                   /\ something_new' = TRUE
                   /\ idx' = idx + 1
                   /\ pc' = "loop"
              ELSE /\ Finish("unchanged")
                   /\ UNCHANGED <<series, something_new, posts, delivery>>

\* mutant of ReconcileWith: an update does not set something_new
ReconcileWith_ForgetFlag(latest, last_f) ==
  IF latest = None
    THEN /\ Finish("no_chapter")
         /\ UNCHANGED <<series, something_new, posts, delivery, seen, repeated>>
    ELSE /\ seen' = [seen EXCEPT ![idx] = latest]
         /\ repeated' = (seen[idx] = latest)
         /\ IF IsUpdate(last_f, latest)
              THEN /\ series' = [series EXCEPT ![idx].last_chapter = latest]
                   /\ out' = Append(out, Line(idx, "updated", ShownOld(last_f), latest))
                   /\ posts' = IF webhook
                                 THEN Append(posts, Line(idx, "updated",
                                                         ShownOld(last_f), latest))
                                 ELSE posts
                   /\ \E o \in PostOutcomes :
                        delivery' = IF webhook THEN Append(delivery, o) ELSE delivery
                   /\ idx' = idx + 1
                   /\ pc' = "loop"
                   /\ UNCHANGED something_new
              ELSE /\ Finish("unchanged")
                   /\ UNCHANGED <<series, something_new, posts, delivery>>

\* the loop body once get_latest_chapter has returned latest: the warning,
\* or the comparison with last_chapter and the update
ReconcileWith(latest, last_f) ==
  IF latest = None
    THEN /\ Finish("no_chapter")
         /\ UNCHANGED <<series, something_new, posts, delivery, seen, repeated>>
    ELSE /\ seen' = [seen EXCEPT ![idx] = latest]
         /\ repeated' = (seen[idx] = latest)
         /\ IF IsUpdate(last_f, latest)
              THEN /\ series' = [series EXCEPT ![idx].last_chapter = latest]
                   /\ out' = Append(out, Line(idx, "updated", ShownOld(last_f), latest))
                   /\ posts' = IF webhook
                                 THEN Append(posts, Line(idx, "updated",
                                                         ShownOld(last_f), latest))
                                 ELSE posts
                   /\ \E o \in PostOutcomes :
                        delivery' = IF webhook THEN Append(delivery, o) ELSE delivery
                   /\ something_new' = TRUE
                   /\ idx' = idx + 1
                   /\ pc' = "loop"
              ELSE /\ Finish("unchanged")
                   /\ UNCHANGED <<series, something_new, posts, delivery>>

\* mutant of Reconcile: the library is saved as soon as a series is done
Reconcile_SaveEach ==
  /\ pc = "parse"
  /\ ReconcileWith(ParseLatest(series[idx].url, LowerHint(series[idx].site), html.text),
                   CoerceLast(series[idx].last_chapter))
  /\ file' = save_library(series')
  /\ writes' = writes + 1
  /\ got' = <<>>
  /\ UNCHANGED <<envVars, unitVars, fetchVars, html, summary, loaded>>

\* the rest of get_latest_chapter and of the loop body: parse, compare, update
Reconcile ==
  /\ pc = "parse"
  /\ ReconcileWith(ParseLatest(series[idx].url, LowerHint(series[idx].site), html.text),
                   CoerceLast(series[idx].last_chapter))
  /\ got' = <<>>
  /\ UNCHANGED <<file, envVars, unitVars, fetchVars, html, summary, writes, loaded>>

\* mutant of EndRun: the library is saved whether or not something is new
EndRun_AlwaysSave ==
  /\ pc = "loop"
  /\ idx > Len(series)
  /\ file' = save_library(series)
  /\ writes' = writes + 1
  /\ summary' = IF something_new THEN "saved" ELSE "sin_novedades"
  /\ pc' = "idle"
  /\ got' = <<>>
  /\ UNCHANGED <<envVars, unitVars, series, idx, something_new, fetchVars, html, out, posts, delivery,
                 loaded, seen, repeated>>

\* after the loop: save_library(lib) if something_new, else "Sin novedades."
EndRun ==
  /\ pc = "loop"
  /\ idx > Len(series)
  /\ IF something_new
       THEN /\ file' = save_library(series)
            /\ writes' = writes + 1
            /\ summary' = "saved"
       ELSE /\ summary' = "sin_novedades"
            /\ UNCHANGED <<file, writes>>
  /\ pc' = "idle"
  /\ got' = <<>>
  /\ UNCHANGED <<envVars, unitVars, series, idx, something_new, fetchVars, html, out, posts, delivery,
                 loaded, seen, repeated>>

Next == StartRun \/ BeginSource \/ FetchAttempt \/ Reconcile \/ EndRun

Spec == Init /\ [][Next]_vars

\* one run of main(): the process starts once, and takes its next step as long
\* as it has one
FirstRun == summary = "none" /\ StartRun

RunNext == FirstRun \/ BeginSource \/ FetchAttempt \/ Reconcile \/ EndRun

RunSpec == Init /\ [][RunNext]_vars /\ WF_vars(RunNext)

(***************************************************************************)
(* notify_discord.py.  A text is the sequence of its characters, NL the     *)
(* newline.                                                                *)
(***************************************************************************)
NL == "\n"

\* s.splitlines()
RECURSIVE SplitLines(_)
SplitLines(s) ==
  IF s = <<>> THEN <<>>
  ELSE LET e == CHOOSE i \in 1..(Len(s) + 1) :
                  /\ i > Len(s) \/ s[i] = NL
                  /\ \A j \in 1..(i - 1) : s[j] # NL
       IN  <<SubSeq(s, 1, e - 1)>> \o SplitLines(SubSeq(s, e + 1, Len(s)))

\* "\n".join(lines)
RECURSIVE JoinLines(_)
JoinLines(lines) ==
  IF lines = <<>> THEN <<>>
  ELSE IF Len(lines) = 1 THEN lines[1]
  ELSE lines[1] \o <<NL>> \o JoinLines(Tail(lines))

\* the loop of _chunks over the lines left, with its out (acc), cur and total
RECURSIVE ChunkLoop(_, _, _, _, _)
ChunkLoop(lines, n, acc, cur, total) ==
  IF lines = <<>> THEN (IF cur # <<>> THEN Append(acc, JoinLines(cur)) ELSE acc)
  ELSE IF total + Len(Head(lines)) + 1 > n /\ cur # <<>>
    THEN ChunkLoop(Tail(lines), n, Append(acc, JoinLines(cur)), <<Head(lines)>>,
                   Len(Head(lines)) + 1)
  ELSE ChunkLoop(Tail(lines), n, acc, Append(cur, Head(lines)),
                 total + Len(Head(lines)) + 1)

\* _chunks(s, n)
chunks(s, n) ==
  IF Len(s) <= n THEN <<s>> ELSE ChunkLoop(SplitLines(s), n, <<>>, <<>>, 0)

\* the limit _format_list chunks at, and the limit of the transport it leaves
\* a margin to
ChunkLimit == 1900
TransportLimit == 2000

\* the bullet that starts an item, written as a middle dot, and the dash that
\* stands for no item, written as a hyphen: one character each, as in the code
Bullet == <<"·", " ">>
Dash == <<"-">>
\* the three backquotes that open and close the code block of a message, each
\* written as a "^"
Fence == <<"^", "^", "^">>

\* the message of a part: the title line in bold, then the part in a code block
Block(title, part) ==
  <<"*", "*">> \o title \o <<":", "*", "*", NL>> \o Fence \o part \o Fence

\* _format_list(title, items), chunked at limit
format_list(title, items, limit) ==
  LET body == IF items # <<>>
                THEN JoinLines([i \in 1..Len(items) |-> Bullet \o items[i]])
                ELSE Dash
      parts == chunks(body, limit)
  IN  [i \in 1..Len(parts) |-> Block(title, parts[i])]

\* the attempts of _post
post_tries == 3

\* mutant of PostFrom: an exception of requests.post leaves _post
RECURSIVE PostFrom_Uncaught(_, _)
PostFrom_Uncaught(script, i) ==
  IF i > post_tries THEN [attempts |-> post_tries, delivered |-> FALSE, returned |-> TRUE]
  ELSE IF script[i] = "ok" THEN [attempts |-> i, delivered |-> TRUE, returned |-> TRUE]
  ELSE IF script[i] = "raise" THEN [attempts |-> i, delivered |-> FALSE, returned |-> FALSE]
  ELSE PostFrom_Uncaught(script, i + 1)

\* _post from its attempt i on, script[j] being what the j-th requests.post does:
\* the attempts made, was an ok response got, did _post return normally
RECURSIVE PostFrom(_, _)
PostFrom(script, i) ==
  IF i > post_tries THEN [attempts |-> post_tries, delivered |-> FALSE, returned |-> TRUE]
  ELSE IF script[i] = "ok" THEN [attempts |-> i, delivered |-> TRUE, returned |-> TRUE]
  ELSE PostFrom(script, i + 1)

\* _post(webhook, content)
post(script) == PostFrom(script, 1)

T_sin_novedades ==
  <<"*", "*", "S", "i", "n", " ", "n", "o", "v", "e", "d", "a", "d", "e", "s", ".", "*", "*">>
Title_updates == <<"N", "o", "v", "e", "d", "a", "d", "e", "s">>
Title_oks == <<"R", "e", "v", "i", "s", "a", "d", "a", "s", " ", "/", " ", "s", "i", "n",
               " ", "c", "a", "m", "b", "i", "o", "s">>
Title_warnings == <<"A", "v", "i", "s", "o", "s", "/", "e", "r", "r", "o", "r", "e", "s">>

\* a message of send_discord: the branch that builds it, and its content
Tagged(section, contents) ==
  [i \in 1..Len(contents) |-> [section |-> section, content |-> contents[i]]]

\* mutant of Messages: "Sin novedades." only when there is nothing at all to say
Messages_QuietOnly(updates, warnings, oks) ==
  (IF updates = <<>> /\ warnings = <<>> /\ oks = <<>>
     THEN Tagged("none", <<T_sin_novedades>>) ELSE <<>>)
    \o (IF updates # <<>>
          THEN Tagged("updates", format_list(Title_updates, updates, ChunkLimit))
          ELSE <<>>)
    \o (IF oks # <<>> THEN Tagged("oks", format_list(Title_oks, oks, ChunkLimit)) ELSE <<>>)
    \o (IF warnings # <<>>
          THEN Tagged("warnings", format_list(Title_warnings, warnings, ChunkLimit))
          ELSE <<>>)

\* the messages send_discord hands to _post, in order
Messages(updates, warnings, oks) ==
  (IF updates = <<>> THEN Tagged("none", <<T_sin_novedades>>) ELSE <<>>)
    \o (IF updates # <<>>
          THEN Tagged("updates", format_list(Title_updates, updates, ChunkLimit))
          ELSE <<>>)
    \o (IF oks # <<>> THEN Tagged("oks", format_list(Title_oks, oks, ChunkLimit)) ELSE <<>>)
    \o (IF warnings # <<>>
          THEN Tagged("warnings", format_list(Title_warnings, warnings, ChunkLimit))
          ELSE <<>>)

\* the calls of _post from the k-th message on, scripts[j] being what the
\* requests.post calls for the j-th message do
RECURSIVE SendFrom(_, _, _)
SendFrom(msgs, scripts, k) ==
  IF k > Len(msgs) THEN <<>>
  ELSE <<[section |-> msgs[k].section, content |-> msgs[k].content,
          attempts |-> post(scripts[k]).attempts,
          delivered |-> post(scripts[k]).delivered]>>
         \o (IF post(scripts[k]).returned THEN SendFrom(msgs, scripts, k + 1) ELSE <<>>)

\* send_discord(updates, warnings, oks): the messages it hands to _post and what
\* became of each; none when no webhook is configured
send_discord(hook, updates, warnings, oks, scripts) ==
  IF ~hook THEN <<>> ELSE SendFrom(Messages(updates, warnings, oks), scripts, 1)

(***************************************************************************)
(* The functions of the repository called by themselves, on inputs the     *)
(* initial state draws.                                                    *)
(***************************************************************************)
\* the hosts and the site hints a series may have
Hosts == {<<"bokugents", "com">>, <<"mangasnosekai", "com">>, <<"m440", "in">>,
          <<"zonatmo", "com">>, <<"www", "zonatmo", "com">>, <<"animebbg", "net">>,
          <<"example", "org">>}
Hints == {<<>>, <<"bokugents">>, <<"mangasnosekai">>, <<"m440">>, <<"zonatmo">>,
          <<"animebbg">>, <<"AnimeBBG">>, <<"other">>}

DispatchInputs == {[f |-> "dispatch", host |-> h, hint |-> n] : h \in Hosts, n \in Hints}

\* the text fragments normalize_chapter is called on: what precedes the marker,
\* the marker, the blank after it, the number (major, separator, minor) and
\* what follows
W_Capitulo == <<"C", "a", "p", "i", "t", "u", "l", "o">>
W_cap == <<"c", "a", "p">>
W_ep == <<"e", "p">>
W_episode == <<"e", "p", "i", "s", "o", "d", "e">>
W_hash == <<"#">>
Markers == {W_capitulo_acc, W_Capitulo, W_chapter, W_ch, W_cap, W_ep, W_episode, W_hash}
Pre_none == <<>>
Pre_seven == <<"7", " ">>
Pre_ch3 == <<"c", "h", " ", "3", " ">>
Post_none == <<>>
Post_nine == <<" ", "9">>
Post_x == <<"x">>
Majors == {[d |-> <<"5">>, v |-> 5 * Scale], [d |-> <<"4", "9">>, v |-> 49 * Scale]}
Minors == {[d |-> <<"1">>, v |-> 100], [d |-> <<"2", "0">>, v |-> 200]}
NoMinor == [d |-> <<>>, v |-> 0]
NoSep == ""
Separators == {".", ",", "-", "_"}

Fragment(pre, marker, gap, major, sep, minor, rest) ==
  [f |-> "normalize_chapter", pre |-> pre, marker |-> marker, major |-> major,
   sep |-> sep, minor |-> minor, post |-> rest,
   text |-> pre \o marker \o gap \o major.d
              \o (IF sep = NoSep THEN <<>> ELSE <<sep>> \o minor.d) \o rest]

Fragments ==
  {Fragment(pre, mk, gap, mj, sp[1], sp[2], rest) :
     pre \in {Pre_none, Pre_seven, Pre_ch3}, mk \in Markers, gap \in {<<>>, <<" ">>},
     mj \in Majors, sp \in {<<NoSep, NoMinor>>} \cup (Separators \X Minors),
     rest \in {Post_none, Post_nine, Post_x}}

\* the calls of send_discord: each list with no item or one, and what the
\* requests.post calls for the first, second and third message do
Item_U == <<"U">>
Item_W == <<"W">>
Item_K == <<"K">>
Scripts == [1..post_tries -> PostOutcomes]
LaterScripts ==
  {<<"ok", "ok", "ok">>, <<"bad", "ok", "bad">>, <<"raise", "bad", "ok">>,
   <<"bad", "bad", "bad">>, <<"raise", "raise", "raise">>}
SendInputs ==
  {[f |-> "send_discord", hook |-> h, updates |-> u, warnings |-> w, oks |-> k,
    scripts |-> <<s1, s2, s3>>] :
     h \in BOOLEAN, u \in {<<>>, <<Item_U>>}, w \in {<<>>, <<Item_W>>},
     k \in {<<>>, <<Item_K>>}, s1 \in Scripts, s2 \in LaterScripts, s3 \in LaterScripts}

\* the longest library fix_yaml is run on
MaxFixSeries == 2

\* the last_chapter values of that library
FixValues ==
  {None, EmptyString, NotNumber, NaN, NumStr(5 * Scale), Num(5 * Scale), Num(0),
   Num(0 - Scale), Num(40), Num(7250), Num(49100), Num(49120), Num(1899960),
   Num(2024 * Scale), Num(2100040), Num(3000 * Scale), Num(3000040)}

FixInputs ==
  {[f |-> "fix_yaml", dry |-> d, lib |-> l] :
     d \in BOOLEAN,
     l \in {NoFile, NoList}
            \cup UNION {{Library(lcs) : lcs \in [1..n -> FixValues]} : n \in 0..MaxFixSeries}}

\* the pages the parsers are called on: at most MaxElems elements, each a
\* chapter link, a header link, an album title, another link or text outside
\* any link
MaxElems == 2
T_seven == <<"7">>
Elems ==
  {El(kind, t) : kind \in {"chapter_link", "h4_link", "album_title", "link", "text"},
                 t \in {T_cap5, T_cap7_2, T_seven, T_x}}
ParseInputs ==
  {[f |-> "parse", parser |-> q, page |-> b] :
     q \in {"madara", "zonatmo", "animebbg"},
     b \in UNION {[1..n -> Elems] : n \in 0..MaxElems}}

\* the calls of _chunks: texts of at most MaxChunkText characters, letters and
\* newlines, and limits of at most MaxChunkLimit
MaxChunkText == 5
MaxChunkLimit == 3
Texts(len) == UNION {[1..m -> {"a", NL}] : m \in 0..len}
ChunkInputs ==
  {[f |-> "chunks", s |-> t, n |-> n] : t \in Texts(MaxChunkText), n \in 1..MaxChunkLimit}

UnitInputs == DispatchInputs \cup Fragments \cup SendInputs \cup FixInputs
                \cup ParseInputs \cup ChunkInputs

UnitInit ==
  /\ file = [exists |-> FALSE, series |-> <<>>]
  /\ cloudscraper = FALSE
  /\ webhook = FALSE
  /\ MainIdle
  /\ arg \in UnitInputs
  /\ res = NoRes

Returned(v) == [done |-> TRUE, v |-> v]

\* get_latest_chapter picks the parser for a host and a site hint
Dispatch ==
  /\ arg.f = "dispatch"
  /\ ~res.done
  /\ res' = Returned(ParserFor(arg.host, LowerHint(arg.hint)))
  /\ UNCHANGED <<arg, mainVars>>

\* normalize_chapter(text)
Normalize ==
  /\ arg.f = "normalize_chapter"
  /\ ~res.done
  /\ res' = Returned(normalize_chapter(arg.text))
  /\ UNCHANGED <<arg, mainVars>>

\* send_discord(updates, warnings, oks)
SendDiscord ==
  /\ arg.f = "send_discord"
  /\ ~res.done
  /\ res' = Returned(send_discord(arg.hook, arg.updates, arg.warnings, arg.oks,
                                  arg.scripts))
  /\ UNCHANGED <<arg, mainVars>>

\* fix_yaml.py's main()
FixYaml ==
  /\ arg.f = "fix_yaml"
  /\ ~res.done
  /\ \E r \in fix_yaml(arg.lib, arg.dry) : res' = Returned(r)
  /\ UNCHANGED <<arg, mainVars>>

\* the parser get_latest_chapter has picked, called on a page
Parse ==
  /\ arg.f = "parse"
  /\ ~res.done
  /\ res' = Returned(ParseWith(arg.parser, arg.page))
  /\ UNCHANGED <<arg, mainVars>>

\* _chunks(s, n)
Chunk ==
  /\ arg.f = "chunks"
  /\ ~res.done
  /\ res' = Returned(chunks(arg.s, arg.n))
  /\ UNCHANGED <<arg, mainVars>>

UnitNext == Dispatch \/ Normalize \/ SendDiscord \/ FixYaml \/ Parse \/ Chunk

UnitSpec == UnitInit /\ [][UnitNext]_vars

\* the runs of main() and the functions called by themselves
System == (Init \/ UnitInit) /\ [][Next \/ UnitNext]_vars

TypeOK ==
  /\ pc \in {"idle", "loop", "fetch", "parse"}
  /\ attempt \in 1..max_tries
  /\ idx \in 1..(Len(series) + 1)

(***************************************************************************)
(* Properties.                                                             *)
(***************************************************************************)
\* a run of main() over a library with series has reached its end
RunEnded == pc = "idle" /\ summary \in {"saved", "sin_novedades"}

FailureKinds == {"fetch_error", "unknown_error", "no_chapter"}

\* get_latest_chapter's result for the series main() is at
Latest == ParseLatest(series[idx].url, LowerHint(series[idx].site), html.text)

LastLine(o) == o[Len(o)]

\* C1: a series whose fetch failed on all attempts (fetch_html raised) or whose
\* page gave no candidate keeps the last_chapter it had when the run loaded it,
\* in memory and in the file after the run, and the run prints and posts no
\* update for it.
C1_FailureKeepsLastChapter ==
  \A j \in 1..Len(out) :
    out[j].kind \in FailureKinds =>
      /\ series[out[j].src].last_chapter = loaded[out[j].src].last_chapter
      /\ RunEnded =>
           file.series[out[j].src].last_chapter = loaded[out[j].src].last_chapter
      /\ \A k \in 1..Len(out) : out[k].src = out[j].src => out[k].kind # "updated"
      /\ \A k \in 1..Len(posts) : posts[k].src # out[j].src

\* C1 happens: a run that rewrote the file ended with a fetch failure for a
\* series that had last_chapter 5.0, and the file still holds 5.0 for it
C1_Witness ==
  /\ RunEnded
  /\ summary = "saved"
  /\ \E j \in 1..Len(out) :
       /\ out[j].kind = "fetch_error"
       /\ loaded[out[j].src].last_chapter = Num(5000)
       /\ file.series[out[j].src].last_chapter = Num(5000)

NoDecrease(a, b) == a.k = "num" => (b.k = "num" /\ b.v >= a.v)

\* C2: once a series' last_chapter is a number N, no step of any run makes it
\* smaller, in the file or in memory, and a reconciliation that extracted a
\* value <= N leaves the library as it was and reports no update.
C2_Monotone ==
  [][ /\ \A i \in (DOMAIN file.series) \cap (DOMAIN file'.series) :
           NoDecrease(file.series[i].last_chapter, file'.series[i].last_chapter)
      /\ \A i \in (DOMAIN series) \cap (DOMAIN series') :
           NoDecrease(series[i].last_chapter, series'[i].last_chapter)
      /\ ( /\ pc = "parse"
           /\ series[idx].last_chapter.k = "num"
           /\ LastLine(out').kind # "no_chapter"
           /\ seen'[idx].v <= series[idx].last_chapter.v )
         => (series' = series /\ LastLine(out').kind = "unchanged"
               /\ posts' = posts /\ something_new' = something_new)
    ]_vars

\* C2 happens: the file held 7.2, stored by an earlier run, the run extracted 0
\* for that series, and the file still holds 7.2
C2_Witness ==
  /\ RunEnded
  /\ \E i \in 1..Len(out) :
       /\ out[i].kind = "unchanged"
       /\ loaded[out[i].src].last_chapter = Num(7200)
       /\ seen[out[i].src] = Num(0)
       /\ file.series[out[i].src].last_chapter = Num(7200)

BootstrapStep(latest) ==
  latest # None =>
    /\ series'[idx].last_chapter = latest
    /\ out' = Append(out, Line(idx, "updated", Placeholder, latest))
    /\ something_new'
    /\ webhook => posts' = Append(posts, Line(idx, "updated", Placeholder, latest))

\* C3: for a series whose last_chapter is None, a successful extraction of any
\* value is an update: last_chapter becomes the value, the update line shows the
\* old value as 0 (and is posted when the webhook is set), something_new is set.
C3_Bootstrap ==
  [][ (pc = "parse" /\ series[idx].last_chapter = None) => BootstrapStep(Latest) ]_vars

\* C3 happens: a series with no last_chapter got the value 0 by an update
C3_Witness ==
  /\ something_new
  /\ \E j \in 1..Len(out) :
       /\ out[j] = Line(out[j].src, "updated", Placeholder, Num(0))
       /\ loaded[out[j].src].last_chapter = None
       /\ series[out[j].src].last_chapter = Num(0)

IdempotentStep(latest) ==
  (latest # None /\ latest = seen[idx]) =>
    /\ series' = series
    /\ out' = Append(out, Line(idx, "unchanged", None, None))
    /\ something_new' = something_new
    /\ posts' = posts

\* C4: a reconciliation that extracts the value the previous reconciliation of
\* the same series extracted changes no last_chapter and is no update.
C4_Idempotent ==
  [][ pc = "parse" => IdempotentStep(Latest) ]_vars

\* C4 happens: an earlier run stored 7.2 for a series, and the latest
\* reconciliation extracted 7.2 again, as the one before it did
C4_Witness ==
  /\ repeated
  /\ pc = "loop"
  /\ out # <<>>
  /\ LastLine(out).kind = "unchanged"
  /\ seen[LastLine(out).src] = Num(7200)
  /\ loaded[LastLine(out).src].last_chapter = Num(7200)

\* C5: no fetch failure, extraction failure or other exception of one series
\* ends the loop: the lines printed are those of series 1, 2, ... in order, and
\* main() stops only at its end, after a line for every series, with the
\* summary step done.
C5_FailureIsolation ==
  /\ \A j \in 1..Len(out) : out[j].src = j
  /\ pc # "idle" => Len(out) = idx - 1
  /\ (pc = "idle" /\ loaded # <<>>) => (RunEnded /\ Len(out) = Len(series))

\* C5 happens: the first series failed with an exception fetch_html does not
\* catch, the second one was updated, and the run saved the library
C5_Witness ==
  /\ RunEnded
  /\ summary = "saved"
  /\ Len(out) = 2
  /\ out[1].kind = "unknown_error"
  /\ out[2].kind = "updated"

\* C6: fetch_html makes at most max_tries attempts, no series is processed twice
\* in a run, and every run of main() ends, whatever the requests do.
C6_Termination ==
  /\ [](attempt <= max_tries)
  /\ [](\A j, k \in 1..Len(out) : out[j].src = out[k].src => j = k)
  /\ <>(pc = "idle" /\ summary # "none")

\* C6 happens: a run over two series ended after every request of both failed
C6_Witness ==
  /\ RunEnded
  /\ summary = "sin_novedades"
  /\ Len(out) = 2
  /\ out[1].kind = "fetch_error"
  /\ out[2].kind = "fetch_error"
  /\ attempt = max_tries

\* C7 (as the spec states it): every run of main() over a library with series
\* has written the library to the file by its end, changed or not.
C7_SavesEveryRun == RunEnded => writes = 1

\* C7 (amended): a run of main() over a library with series writes the library
\* to the file at its end exactly when it updated some last_chapter, and what it
\* writes is the whole in-memory library; a run that updated nothing writes
\* nothing, leaves the file as loaded and ends with "Sin novedades."; a run
\* that finds no series writes nothing.
C7_SavesOnlyWhenNew ==
  /\ RunEnded =>
       /\ (writes = 1) <=> (\E j \in 1..Len(out) : out[j].kind = "updated")
       /\ writes \in {0, 1}
       /\ writes = 1 => file = save_library(series) /\ summary = "saved"
       /\ writes = 0 => file = save_library(loaded) /\ summary = "sin_novedades"
  /\ (pc = "idle" /\ summary = "no_series") => writes = 0

\* a run has ended in which one series was unchanged and another failed
C7_Witness ==
  /\ RunEnded
  /\ writes = 0
  /\ file = save_library(loaded)
  /\ \E j \in 1..Len(out) : out[j].kind = "unchanged"
  /\ \E j \in 1..Len(out) : out[j].kind \in FailureKinds

\* C8: the file is written at most once per run, only after every series has
\* been processed; while the loop runs nothing has been written and the file is
\* as it was when the run loaded it.
C8_SingleWriteAtEnd ==
  /\ writes <= 1
  /\ pc # "idle" => writes = 0 /\ file = save_library(loaded)
  /\ writes = 1 => pc = "idle" /\ Len(out) = Len(series) /\ idx = Len(series) + 1

\* mid-loop, after the first series was updated in memory: the file still holds
\* what was loaded
C8_Witness ==
  /\ pc = "loop"
  /\ idx = 2
  /\ Len(series) = 2
  /\ something_new
  /\ series # loaded
  /\ file.series = loaded
  /\ writes = 0

\* C9: every value get_latest_chapter returns and every value main() writes to
\* last_chapter is positive, outside [1900, 2100] and not above the id ceiling.
C9_PlausibleCandidates ==
  /\ pc = "parse" => (Latest = None \/ plausible_chapter(Latest))
  /\ \A i \in 1..Len(series) :
       series[i].last_chapter # loaded[i].last_chapter
         => plausible_chapter(series[i].last_chapter)

\* C10 (as the spec states it): fetch_html returns only a response of status
\* 200 or 201 whose body is not empty.
C10_StatusAndBody ==
  pc = "parse" => html.status \in {200, 201} /\ html.text # EmptyBody

\* C10 (amended): fetch_html returns only a response of status 200 or 201, and
\* returns its body as received: an empty body reaches the parser, which finds
\* no candidate in it.
C10_StatusOnly ==
  /\ pc = "parse" => html.status \in {200, 201}
  /\ (pc = "parse" /\ html.text = EmptyBody) => Latest = None

\* fetch_html has returned a 200 response with an empty body
C10_Witness == pc = "parse" /\ html.status = 200 /\ html.text = EmptyBody /\ nreq = 1

\* a sess.get outcome that is a 403 or 503 response
Blocked(g) == g \in Responses /\ g.status \in {403, 503}

\* the series main() is at is flagged: its host is in FORCE_CLOUDSCRAPER or it
\* sets force_cloudscraper
Flagged == UseCloudAtEntry(series[idx])

\* fetch_html returns the first accepted response: an iteration returns the
\* last response it got when that is a 200 or 201, and got no 200 or 201 when
\* it does not return
ReturnsFirstAccepted ==
  /\ pc' = "parse" => html' = got'[Len(got')] /\ html'.status \in {200, 201}
  /\ pc' # "parse" =>
       \A j \in 1..Len(got') : got'[j] \in Responses => got'[j].status \notin {200, 201}

\* C11 (as the spec states it): in fetch_html a 403 or 503 answer to the
\* lightweight client makes the call fall back to cloudscraper when the host
\* is flagged (and only then), and the call returns the first accepted response.
C11_EscalatesFlagged ==
  [][pc = "fetch" =>
       /\ (Blocked(got'[1]) /\ sess = "requests") => (Len(got') = 2 <=> Flagged)
       /\ ReturnsFirstAccepted]_vars

\* C11 (amended): a 403 or 503 answer makes the call fall back to cloudscraper
\* exactly when the call is not in cloudscraper mode yet (use_cloud false, so the
\* host is not flagged) and cloudscraper is installed; the fallback gets the url
\* once more with a cloudscraper session and leaves the call in cloudscraper
\* mode; the call returns the first accepted response, from whichever client.
C11_EscalatesUnflagged ==
  [][pc = "fetch" =>
       /\ Len(got') = 2 <=> (Blocked(got'[1]) /\ ~use_cloud /\ cloudscraper)
       /\ Len(got') = 2 =>
            /\ ~Flagged
            /\ sess = "requests"
            /\ sess' = "cloudscraper"
            /\ use_cloud'
       /\ Len(got') = 1 => sess' = sess /\ use_cloud' = use_cloud
       /\ ReturnsFirstAccepted]_vars

\* the fallback of a call for an unflagged host got a 200 after a 403
C11_Witness ==
  /\ pc = "parse"
  /\ ~Flagged
  /\ Len(got) = 2
  /\ got[1].status = 403
  /\ html.status = 200
  /\ html = got[2]
  /\ sess = "cloudscraper"

\* the site templates get_latest_chapter knows, in the order it tries them:
\* the name a hint may hold, the domain a host may hold, the parser
Templates ==
  << [name |-> "bokugents", dom |-> <<"bokugents", "com">>, parser |-> "madara"],
     [name |-> "mangasnosekai", dom |-> <<"mangasnosekai", "com">>, parser |-> "madara"],
     [name |-> "m440", dom |-> <<"m440", "in">>, parser |-> "madara"],
     [name |-> "zonatmo", dom |-> <<"zonatmo", "com">>, parser |-> "zonatmo"],
     [name |-> "animebbg", dom |-> <<"animebbg", "net">>, parser |-> "animebbg"] >>

\* the templates the hint names, and those the host belongs to
HintMatches(hint) == {i \in 1..Len(Templates) : HintHas(LowerHint(hint), Templates[i].name)}
HostMatches(host) == {i \in 1..Len(Templates) : HostHas(host, Templates[i].dom)}

\* the least element of a set of numbers that is not empty
Least(S) == CHOOSE i \in S : \A j \in S : i <= j

\* C12 (as the spec states it): the parser is that of the template the hint
\* names, whatever the host; the host decides only when the hint names none;
\* with no template for the host either, the generic parser (Madara's).
C12_HintOverridesHost ==
  (arg.f = "dispatch" /\ res.done) =>
    res.v = IF HintMatches(arg.hint) # {}
              THEN Templates[Least(HintMatches(arg.hint))].parser
            ELSE IF HostMatches(arg.host) # {}
              THEN Templates[Least(HostMatches(arg.host))].parser
            ELSE "madara"

\* C12 (amended): the parser is that of the first template, in the order
\* bokugents, mangasnosekai, m440, zonatmo, animebbg, that the host or the hint
\* matches: a hint overrides the host only when its template comes before the
\* host's; with no template matched by either, the generic parser (Madara's).
C12_FirstTemplateMatched ==
  (arg.f = "dispatch" /\ res.done) =>
    res.v = IF HintMatches(arg.hint) \cup HostMatches(arg.host) # {}
              THEN Templates[Least(HintMatches(arg.hint) \cup HostMatches(arg.host))].parser
            ELSE "madara"

\* the host is zonatmo's, the hint names animebbg, and zonatmo's parser is picked
C12_Witness ==
  /\ arg.f = "dispatch"
  /\ res.done
  /\ arg.host = <<"zonatmo", "com">>
  /\ arg.hint = <<"AnimeBBG">>
  /\ res.v = "zonatmo"

\* the number after the marker of a fragment, with the separators of sepset read
\* as the decimal point and any other separator ending the number
Marked(a, sepset) == Num(a.major.v + (IF a.sep \in sepset THEN a.minor.v ELSE 0))

Header(title) == <<"*", "*">> \o title \o <<":", "*", "*", NL>>

\* a message handed to _post by the call of send_discord that has returned
Handed(k) == res.v[k].content

\* main() printed an update line in this run
PrintedUpdate == \E j \in 1..Len(out) : out[j].kind = "updated"

\* send_discord, with a webhook, posts "**Sin novedades.**" exactly when there
\* are no updates and the "Novedades" blocks exactly when there are some, and
\* the warnings go into messages of their own, titled "Avisos/errores"
SummaryOrNoChanges ==
  (arg.f = "send_discord" /\ res.done /\ arg.hook) =>
    /\ (\E k \in 1..Len(res.v) : Handed(k) = T_sin_novedades) <=> arg.updates = <<>>
    /\ (\E k \in 1..Len(res.v) : StartsWith(Handed(k), 1, Header(Title_updates)))
         <=> arg.updates # <<>>
    /\ \A k \in 1..Len(res.v) :
         /\ Contains(Handed(k), Item_U) => StartsWith(Handed(k), 1, Header(Title_updates))
         /\ Contains(Handed(k), Item_W) => StartsWith(Handed(k), 1, Header(Title_warnings))
    /\ arg.warnings # <<>> =>
         \E k \in 1..Len(res.v) : /\ StartsWith(Handed(k), 1, Header(Title_warnings))
                                  /\ Contains(Handed(k), Item_W)

\* C14 (as the spec states it): every run of main() that has ended printed
\* "Sin novedades." exactly when it updated no series, and send_discord posts
\* either the no-changes message or the updates, with the warnings apart.
C14_EveryRunSummarised ==
  /\ (pc = "idle" /\ summary # "none") => (summary = "sin_novedades" <=> ~PrintedUpdate)
  /\ SummaryOrNoChanges

\* C14 (amended): every run of main() over a library with series printed
\* "Sin novedades." exactly when it updated no series; a run that finds no
\* series prints neither updates nor "Sin novedades."; send_discord posts either
\* the no-changes message or the updates, with the warnings apart.
C14_RunWithSeriesSummarised ==
  /\ RunEnded => (summary = "sin_novedades" <=> ~PrintedUpdate)
  /\ (pc = "idle" /\ summary = "no_series") => (out = <<>> /\ loaded = <<>>)
  /\ SummaryOrNoChanges

\* no update and one warning: "**Sin novedades.**", then the warnings block
C14_Witness ==
  /\ arg.f = "send_discord"
  /\ res.done
  /\ arg.hook
  /\ arg.updates = <<>>
  /\ arg.warnings = <<Item_W>>
  /\ arg.oks = <<>>
  /\ Len(res.v) = 2
  /\ Handed(1) = T_sin_novedades
  /\ Handed(2) = Block(Title_warnings, Bullet \o Item_W)

\* _post for the k-th message made at most post_tries attempts and stopped at
\* the first ok response, or made them all and got none
PostStopsAtFirstOk(k) ==
  /\ res.v[k].attempts \in 1..post_tries
  /\ \A j \in 1..(res.v[k].attempts - 1) : arg.scripts[k][j] # "ok"
  /\ res.v[k].delivered <=> arg.scripts[k][res.v[k].attempts] = "ok"
  /\ ~res.v[k].delivered => res.v[k].attempts = post_tries

\* C15: _post makes at most 3 attempts, stops at the first ok response and
\* returns also when every attempt fails or raises, so send_discord hands every
\* block to _post whatever became of the blocks before it; and whatever the
\* post of notify_discord_new does, main() has stored the new last_chapter,
\* goes on to the series left and saves the library.
C15_DeliveryNeverFatal ==
  /\ (arg.f = "send_discord" /\ res.done /\ arg.hook) =>
       /\ Len(res.v) = Len(Messages(arg.updates, arg.warnings, arg.oks))
       /\ \A k \in 1..Len(res.v) :
            /\ Handed(k) = Messages(arg.updates, arg.warnings, arg.oks)[k].content
            /\ PostStopsAtFirstOk(k)
  /\ Len(delivery) = Len(posts)
  /\ \A k \in 1..Len(posts) : series[posts[k].src].last_chapter = posts[k].new
  /\ RunEnded =>
       /\ Len(out) = Len(series)
       /\ posts # <<>> => file = save_library(series)

\* the first block was not delivered in three attempts, two of which raised, and
\* the second and the third were handed to _post all the same
C15_Witness ==
  /\ arg.f = "send_discord"
  /\ res.done
  /\ arg.scripts[1] = <<"raise", "bad", "raise">>
  /\ Len(res.v) = 3
  /\ ~res.v[1].delivered
  /\ res.v[1].attempts = post_tries
  /\ res.v[2].delivered
  /\ res.v[2].attempts = 2
  /\ res.v[3].delivered

\* the post of an update raised, and the run went on to the next series and
\* saved the library with the new last_chapter
RunSavedThoughPostRaised ==
  /\ RunEnded
  /\ Len(series) = 2
  /\ Len(out) = 2
  /\ Len(posts) = 1
  /\ posts[1].src = 1
  /\ delivery = <<"raise">>
  /\ file.series[1].last_chapter = posts[1].new

\* C16: after a run of fix_yaml that is not dry, on a library whose series are
\* a list, every last_chapter of the file is None, empty or plausible; a value
\* that was plausible is kept as a number and any other is None; and a second
\* run on the file changes nothing.
C16_FixYamlPostcondition ==
  (arg.f = "fix_yaml" /\ res.done /\ ~arg.dry /\ arg.lib.exists /\ arg.lib.is_list) =>
    \A i \in 1..Len(res.v.lib.series) :
      /\ \/ res.v.lib.series[i] \in {None, EmptyString}
         \/ plausible_chapter(res.v.lib.series[i])
      /\ plausible_chapter(arg.lib.series[i]) => res.v.lib.series[i].k = "num"
      /\ \A e \in FixEntry(res.v.lib.series[i]) : ~e.changed

\* the candidates in the texts of the elements of the page parsed that are of
\* the given kinds and, with capOnly, hold "Cap" or "cap"
StageCaps(kinds, capOnly) ==
  {normalize_chapter(arg.page[i].text) :
     i \in {j \in 1..Len(arg.page) :
              /\ arg.page[j].kind \in kinds
              /\ capOnly => \/ Contains(arg.page[j].text, <<"C", "a", "p">>)
                            \/ Contains(arg.page[j].text, <<"c", "a", "p">>)}} \ {None}

\* the structural selector of the parser called
Structural ==
  IF arg.parser = "zonatmo" THEN {"h4_link"}
  ELSE IF arg.parser = "animebbg" THEN {"album_title"}
  ELSE {"chapter_link"}

AllKinds == {"chapter_link", "h4_link", "album_title", "link", "text"}

\* C17 (as the spec states it): every parser goes from its structural selector
\* to the chapter-indicating anchors and then to the text of the whole page,
\* each stage only when the ones before gave no candidate, and returns the
\* maximum of the first stage that gives any, None when none does.
C17_ThreeStages ==
  (arg.f = "parse" /\ res.done) =>
    res.v = IF StageCaps(Structural, FALSE) # {} THEN MaxOrNone(StageCaps(Structural, FALSE))
            ELSE IF StageCaps(AnchorKinds, TRUE) # {}
              THEN MaxOrNone(StageCaps(AnchorKinds, TRUE))
            ELSE MaxOrNone(StageCaps(AllKinds, FALSE))

\* C17 (amended): parse_zonatmo_latest goes from the header links to the anchors
\* whose text holds "Cap" or "cap", parse_animebbg_latest from the album titles
\* to all the anchors, and parse_madara_latest has the chapter links only; a
\* second stage runs only when the first gave no candidate, the result is the
\* maximum of the first stage that gives any, and None when the parser's own
\* stages give none: no parser scans the text of the whole page.
C17_OwnStages ==
  (arg.f = "parse" /\ res.done) =>
    res.v = IF StageCaps(Structural, FALSE) # {} THEN MaxOrNone(StageCaps(Structural, FALSE))
            ELSE IF arg.parser = "zonatmo" THEN MaxOrNone(StageCaps(AnchorKinds, TRUE))
            ELSE IF arg.parser = "animebbg" THEN MaxOrNone(StageCaps(AnchorKinds, FALSE))
            ELSE None

\* zonatmo: the header link says 5 and another link 7.2; the result is 5
C17_Witness ==
  /\ arg.f = "parse"
  /\ res.done
  /\ arg.parser = "zonatmo"
  /\ arg.page = <<El("h4_link", T_cap5), El("link", T_cap7_2)>>
  /\ res.v = Num(5 * Scale)

\* the lines a chunk was joined from: the pieces between its newlines
RECURSIVE JoinedFrom(_)
JoinedFrom(c) ==
  IF \A i \in 1..Len(c) : c[i] # NL THEN <<c>>
  ELSE LET e == CHOOSE i \in 1..Len(c) : c[i] = NL /\ \A j \in 1..(i - 1) : c[j] # NL
       IN  <<SubSeq(c, 1, e - 1)>> \o JoinedFrom(SubSeq(c, e + 1, Len(c)))

\* the lines of the chunks from the k-th on, in order
RECURSIVE LinesFrom(_, _)
LinesFrom(cs, k) ==
  IF k > Len(cs) THEN <<>> ELSE JoinedFrom(cs[k]) \o LinesFrom(cs, k + 1)

\* no line of s is lost, doubled or moved by _chunks(s, n)
ChunksLossless ==
  (arg.f = "chunks" /\ res.done) =>
    IF Len(arg.s) <= arg.n THEN res.v = <<arg.s>>
    ELSE LinesFrom(res.v, 1) = SplitLines(arg.s)

\* C18: every chunk of _chunks(s, n) has at most n characters and the lines of
\* the chunks, in order, are the lines of s; so the message _format_list builds
\* from a chunk exceeds the limit n by less than the margin left to the
\* transport limit.
C18_ChunksBounded ==
  (arg.f = "chunks" /\ res.done) =>
    /\ \A k \in 1..Len(res.v) :
         /\ Len(res.v[k]) <= arg.n
         /\ Len(Block(Title_oks, res.v[k])) <= arg.n + (TransportLimit - ChunkLimit)
    /\ ChunksLossless

\* the call of fetch_html main() is at, or has just returned from, started in
\* cloudscraper mode
StartedOnCloud == pc \in {"fetch", "parse"} /\ UseCloudAtEntry(series[idx])

\* this iteration of fetch_html's loop falls back to cloudscraper
EscalationStep == pc = "fetch" /\ Len(got') = 2

\* the requests a call has issued are within the bound of the claim
RequestsBounded ==
  /\ nreq <= max_tries + 1
  /\ StartedOnCloud => nreq <= max_tries /\ Len(got) <= 1

\* an iteration of the loop falls back only from the lightweight client, ends on
\* the cloudscraper session, and no iteration leaves cloudscraper mode
FallbackLatches ==
  /\ EscalationStep =>
        ~use_cloud /\ sess = "requests" /\ ~StartedOnCloud
          /\ use_cloud' /\ sess' = "cloudscraper"
  /\ (pc = "fetch" /\ use_cloud) => use_cloud' /\ sess' = sess /\ Len(got') = 1
  /\ (pc = "fetch" /\ sess = "cloudscraper") => sess' = "cloudscraper"

\* C19: within one call of fetch_html the fallback to cloudscraper happens at
\* most once, every later attempt uses the cloudscraper session, and the call
\* issues at most max_tries + 1 requests; a call that starts in cloudscraper
\* mode never falls back and issues at most max_tries requests.
C19_EscalatesOnce == []RequestsBounded /\ [][FallbackLatches]_vars

\* a call that fell back in its first iteration and was answered in its last,
\* by the cloudscraper session, after max_tries + 1 requests
C19_Witness ==
  /\ pc = "parse"
  /\ ~StartedOnCloud
  /\ sess = "cloudscraper"
  /\ attempt = max_tries
  /\ nreq = max_tries + 1
  /\ Len(got) = 1

\* the series whose in-memory last_chapter is not the one that was loaded
ChangedInRun == {i \in 1..Len(series) : series[i].last_chapter # loaded[i].last_chapter}

\* the source loop of main() is over
LoopOver == (pc = "loop" /\ idx > Len(series)) \/ RunEnded

\* C20: no detected update is lost by a completed run: when the source loop is
\* over something_new is true iff some series' in-memory last_chapter was changed
\* in the run; a run that ends with the in-memory library different from the
\* loaded one has handed it to save_library; and every update notification sent
\* carries the value the library holds, in memory and in the file saved.
C20_NoUpdateLost ==
  /\ Len(series) = Len(loaded)
  /\ LoopOver => (something_new <=> ChangedInRun # {})
  /\ (RunEnded /\ series # loaded) => writes = 1 /\ file = save_library(series)
  /\ \A k \in 1..Len(posts) :
       /\ posts[k].src \in ChangedInRun
       /\ series[posts[k].src].last_chapter = posts[k].new
       /\ RunEnded => file.series[posts[k].src].last_chapter = posts[k].new

\* a run over two series has ended: the second one only was updated and
\* notified, and the file holds its new value
C20_Witness ==
  /\ RunEnded
  /\ Len(series) = 2
  /\ ChangedInRun = {2}
  /\ Len(posts) = 1
  /\ posts[1].src = 2
  /\ file.series[2].last_chapter = posts[1].new
  /\ file.series[1] = loaded[1]

====
